---- MODULE Spec2Model ----
(***************************************************************************)
(* Model of backend/generate-jwt.py: a straight-line script that reads the *)
(* UTC clock once, builds a claims payload, signs it as a compact JWS      *)
(* (HS256) and prints the token, the claims and two shell lines.           *)
(*                                                                         *)
(* Text is modelled as TLA+ strings (character sequences).  Python values  *)
(* are tagged records [t |-> "str" | "int" | "dt", v |-> value]; a dict is *)
(* the sequence of its [k, v] items in insertion order.                    *)
(***************************************************************************)
EXTENDS Integers, Sequences, FiniteSets

(***************************************************************************)
(* Bounds of the model.                                                    *)
(***************************************************************************)
\* the wall clock advances in steps of TickUsec microseconds, MaxTick times
MaxTick == 5
TickUsec == 400000
\* how many times the operator runs the script
MaxRuns == 2

(***************************************************************************)
(* Text helpers.                                                           *)
(***************************************************************************)
CharAt(s, i) == SubSeq(s, i, i)

\* printable ASCII, codes 32..95 and 97..126
AsciiLo == " !\"#$%&'()*+,-./0123456789:;<=>?@ABCDEFGHIJKLMNOPQRSTUVWXYZ[\\]^_"
AsciiHi == "abcdefghijklmnopqrstuvwxyz{|}~"

Chr(n) == IF n < 96 THEN CharAt(AsciiLo, n - 31) ELSE CharAt(AsciiHi, n - 96)

ByteCodes == (32..95) \cup (97..126)

Ord == [c \in {Chr(n) : n \in ByteCodes} |-> CHOOSE n \in ByteCodes : Chr(n) = c]

Digits == "0123456789"

DigitVal == [c \in {CharAt(Digits, i) : i \in 1..10} |-> CHOOSE i \in 0..9 : CharAt(Digits, i + 1) = c]

IsDigit(c) == c \in DOMAIN DigitVal

\* str(int) / "%d" for a non-negative int
RECURSIVE Itoa(_)
Itoa(n) == IF n < 10 THEN CharAt(Digits, n + 1)
           ELSE Itoa(n \div 10) \o CharAt(Digits, (n % 10) + 1)

\* int(text) for a string of decimal digits
RECURSIVE AtoiFrom(_, _, _)
AtoiFrom(s, i, acc) == IF i > Len(s) THEN acc
                       ELSE AtoiFrom(s, i + 1, acc * 10 + DigitVal[CharAt(s, i)])

Atoi(s) == AtoiFrom(s, 1, 0)

\* "%0<w>d"
RECURSIVE ZeroPad(_, _)
ZeroPad(s, w) == IF Len(s) >= w THEN s ELSE ZeroPad("0" \o s, w)

\* "c" * n
RECURSIVE Repeat(_, _)
Repeat(c, n) == IF n = 0 THEN "" ELSE c \o Repeat(c, n - 1)

\* s.find(c, i): the first index >= i holding character c, 0 when absent
Find(s, c, i) == LET at == {j \in i..Len(s) : CharAt(s, j) = c}
                 IN IF at = {} THEN 0
                    ELSE CHOOSE j \in at : \A l \in at : j <= l

\* s.split(sep) for a one-character separator
RECURSIVE SplitFrom(_, _, _)
SplitFrom(s, sep, i) ==
    LET j == Find(s, sep, i)
    IN IF j = 0 THEN <<SubSeq(s, i, Len(s))>>
       ELSE <<SubSeq(s, i, j - 1)>> \o SplitFrom(s, sep, j + 1)

Split(s, sep) == SplitFrom(s, sep, 1)

(***************************************************************************)
(* datetime: the naive datetime objects of lines 16 and 23-25.  A datetime *)
(* holds civil fields; the clock is converted to fields by utcnow(), the   *)
(* timedelta is added through the proleptic Gregorian ordinal, and the     *)
(* signer converts fields back to epoch seconds with calendar.timegm.      *)
(***************************************************************************)
SecondsPerDay == 86400
UsecPerSecond == 1000000
\* date(1970, 1, 1).toordinal()
EpochOrd == 719163

IsLeap(y) == y % 4 = 0 /\ (y % 100 # 0 \/ y % 400 = 0)

DaysInMonth(y, m) == IF m = 2 THEN (IF IsLeap(y) THEN 29 ELSE 28)
                     ELSE IF m \in {4, 6, 9, 11} THEN 30 ELSE 31

RECURSIVE DaysBeforeMonth(_, _)
DaysBeforeMonth(y, m) == IF m = 1 THEN 0
                         ELSE DaysBeforeMonth(y, m - 1) + DaysInMonth(y, m - 1)

DaysBeforeYear(y) == LET y1 == y - 1
                     IN y1 * 365 + (y1 \div 4) - (y1 \div 100) + (y1 \div 400)

\* date(y, m, d).toordinal()
Ymd2Ord(y, m, d) == DaysBeforeYear(y) + DaysBeforeMonth(y, m) + d

\* date.fromordinal(n) as <<year, month, day>>
Ord2Ymd(n) ==
    LET y == CHOOSE yy \in (n \div 366)..(n \div 365 + 1) :
                 DaysBeforeYear(yy) < n /\ n <= DaysBeforeYear(yy + 1)
        r == n - DaysBeforeYear(y)
        m == CHOOSE mm \in 1..12 :
                 DaysBeforeMonth(y, mm) < r /\ r <= DaysBeforeMonth(y, mm) + DaysInMonth(y, mm)
    IN <<y, m, r - DaysBeforeMonth(y, m)>>

DateTime(y, mo, d, h, mi, s, us) ==
    [year |-> y, month |-> mo, day |-> d, hour |-> h, minute |-> mi,
     second |-> s, microsecond |-> us]

\* the value of a name that is not bound yet
NoDateTime == DateTime(0, 0, 0, 0, 0, 0, 0)

\* the wall clock c = [start, ticks], as epoch seconds and microseconds
ClockSec(c) == c.start + ((c.ticks * TickUsec) \div UsecPerSecond)
ClockUsec(c) == (c.ticks * TickUsec) % UsecPerSecond

\* datetime.utcnow() when the clock shows (sec, usec)
UtcFromTimestamp(sec, usec) ==
    LET ymd == Ord2Ymd((sec \div SecondsPerDay) + EpochOrd)
        r   == sec % SecondsPerDay
    IN DateTime(ymd[1], ymd[2], ymd[3], r \div 3600, (r % 3600) \div 60, r % 60, usec)

\* timedelta(hours=h), normalised to days and seconds
Timedelta(h) == [days |-> (h * 3600) \div SecondsPerDay,
                 seconds |-> (h * 3600) % SecondsPerDay,
                 microseconds |-> 0]

\* datetime.__add__(timedelta)
DateTimeAdd(dt, td) ==
    LET us   == dt.microsecond + td.microseconds
        secs == dt.hour * 3600 + dt.minute * 60 + dt.second + td.seconds
                  + (us \div UsecPerSecond)
        days == Ymd2Ord(dt.year, dt.month, dt.day) + td.days + (secs \div SecondsPerDay)
        ymd  == Ord2Ymd(days)
        r    == secs % SecondsPerDay
    IN DateTime(ymd[1], ymd[2], ymd[3], r \div 3600, (r % 3600) \div 60, r % 60,
                us % UsecPerSecond)

\* calendar.timegm(dt.utctimetuple()): whole epoch seconds, microseconds dropped
Timegm(dt) ==
    LET days == Ymd2Ord(dt.year, dt.month, 1) - EpochOrd + dt.day - 1
    IN ((days * 24 + dt.hour) * 60 + dt.minute) * 60 + dt.second

\* the instants at which the first run may start: one second before a new
\* year, and one second before the last day of February of a leap year
StartTimes == { DateTime(2025, 12, 31, 23, 59, 59, 0), DateTime(2024, 2, 28, 23, 59, 59, 0) }

\* str(dt): isoformat(sep=" "); the fraction is omitted when it is zero
DateTimeStr(dt) ==
    ZeroPad(Itoa(dt.year), 4) \o "-" \o ZeroPad(Itoa(dt.month), 2) \o "-"
      \o ZeroPad(Itoa(dt.day), 2) \o " " \o ZeroPad(Itoa(dt.hour), 2) \o ":"
      \o ZeroPad(Itoa(dt.minute), 2) \o ":" \o ZeroPad(Itoa(dt.second), 2)
      \o (IF dt.microsecond = 0 THEN "" ELSE "." \o ZeroPad(Itoa(dt.microsecond), 6))


(***************************************************************************)
(* Python values and JSON.                                                 *)
(***************************************************************************)
PyStr(s) == [t |-> "str", v |-> s]
PyInt(n) == [t |-> "int", v |-> n]
PyDt(d) == [t |-> "dt", v |-> d]

Item(k, v) == [k |-> k, v |-> v]

\* d[k]
Get(d, k) == d[CHOOSE i \in 1..Len(d) : d[i].k = k].v

Quote(s) == "\"" \o s \o "\""

\* what json can serialise without a default hook
JsonEncodable(d) == \A i \in 1..Len(d) : d[i].v.t \in {"str", "int"}

\* default=str
DefaultStr(v) == DateTimeStr(v.v)

\* the JSON text of a string or int; any other object goes through default
JsonValue(v) ==
    IF v.t = "str" THEN Quote(v.v)
    ELSE IF v.t = "int" THEN Itoa(v.v)
    ELSE Quote(DefaultStr(v))

RECURSIVE JsonItems(_, _, _, _)
JsonItems(d, i, itemSep, keySep) ==
    IF i > Len(d) THEN ""
    ELSE (IF i = 1 THEN "" ELSE itemSep)
           \o Quote(d[i].k) \o keySep \o JsonValue(d[i].v)
           \o JsonItems(d, i + 1, itemSep, keySep)

\* json.dumps(d, separators=(",", ":")), for an encodable d
JsonDumpsCompact(d) == "{" \o JsonItems(d, 1, ",", ":") \o "}"

\* json.dumps(d, indent=2, default=str)
JsonDumpsIndent(d) == "{\n  " \o JsonItems(d, 1, ",\n  ", ": ") \o "\n}"

\* Reading JSON back (json.loads): used by the properties to inspect what
\* the script has signed and printed.
IsWs(c) == c = " " \/ c = "\n"

\* the first index >= i that holds no whitespace (Len(s) + 1 when none)
SkipWs(s, i) == CHOOSE j \in i..(Len(s) + 1) :
                    /\ j = Len(s) + 1 \/ ~IsWs(CharAt(s, j))
                    /\ \A l \in i..(j - 1) : IsWs(CharAt(s, l))

\* the end of the run of digits starting at i
DigitsEnd(s, i) == CHOOSE j \in i..(Len(s) + 1) :
                       /\ j = Len(s) + 1 \/ ~IsDigit(CharAt(s, j))
                       /\ \A l \in i..(j - 1) : IsDigit(CharAt(s, l))

\* json.loads of a flat object of strings and non-negative ints:
\* the items read from index i on, in the order of the text
RECURSIVE JsonMembers(_, _)
JsonMembers(s, i) ==
    LET k1 == SkipWs(s, i)
        k2 == Find(s, "\"", k1 + 1)
        c  == SkipWs(s, k2 + 1)
        v1 == SkipWs(s, c + 1)
        isStr == CharAt(s, v1) = "\""
        v2 == IF isStr THEN Find(s, "\"", v1 + 1) + 1 ELSE DigitsEnd(s, v1)
        val == IF isStr THEN PyStr(SubSeq(s, v1 + 1, v2 - 2))
               ELSE PyInt(Atoi(SubSeq(s, v1, v2 - 1)))
        e  == SkipWs(s, v2)
    IN <<Item(SubSeq(s, k1 + 1, k2 - 1), val)>>
         \o (IF CharAt(s, e) = "," THEN JsonMembers(s, e + 1) ELSE <<>>)

JsonLoads(s) == JsonMembers(s, Find(s, "{", 1) + 1)

(***************************************************************************)
(* base64url without padding (jwt.utils.base64url_encode / _decode).       *)
(***************************************************************************)
B64Alphabet == "ABCDEFGHIJKLMNOPQRSTUVWXYZabcdefghijklmnopqrstuvwxyz0123456789-_"

B64Char(n) == CharAt(B64Alphabet, n + 1)

B64Val == [c \in {B64Char(n) : n \in 0..63} |-> CHOOSE n \in 0..63 : B64Char(n) = c]

\* the characters for bytes 3g+1 .. 3g+3 of s (fewer at the end)
B64EncodeGroup(s, g) ==
    LET n == Len(s) - 3 * g
        a == Ord[CharAt(s, 3 * g + 1)]
        b == IF n >= 2 THEN Ord[CharAt(s, 3 * g + 2)] ELSE 0
        c == IF n >= 3 THEN Ord[CharAt(s, 3 * g + 3)] ELSE 0
        w == a * 65536 + b * 256 + c
    IN B64Char(w \div 262144) \o B64Char((w \div 4096) % 64)
         \o (IF n >= 2 THEN B64Char((w \div 64) % 64) ELSE "")
         \o (IF n >= 3 THEN B64Char(w % 64) ELSE "")

RECURSIVE B64EncodeGroups(_, _, _)
B64EncodeGroups(s, lo, hi) ==
    IF lo > hi THEN ""
    ELSE IF lo = hi THEN B64EncodeGroup(s, lo)
    ELSE LET mid == (lo + hi) \div 2
         IN B64EncodeGroups(s, lo, mid) \o B64EncodeGroups(s, mid + 1, hi)

\* variant: the "=" padding of standard base64 is kept
base64url_encode_padded(s) ==
    B64EncodeGroups(s, 0, ((Len(s) + 2) \div 3) - 1)
      \o (IF Len(s) % 3 = 1 THEN "==" ELSE IF Len(s) % 3 = 2 THEN "=" ELSE "")

base64url_encode(s) == B64EncodeGroups(s, 0, ((Len(s) + 2) \div 3) - 1)

\* Decoding, used by the properties to open the segments of a token:
\* the bytes for characters 4g+1 .. 4g+4 of s (fewer at the end)
B64DecodeGroup(s, g) ==
    LET n == Len(s) - 4 * g
        a == B64Val[CharAt(s, 4 * g + 1)]
        b == B64Val[CharAt(s, 4 * g + 2)]
        c == IF n >= 3 THEN B64Val[CharAt(s, 4 * g + 3)] ELSE 0
        d == IF n >= 4 THEN B64Val[CharAt(s, 4 * g + 4)] ELSE 0
        w == a * 262144 + b * 4096 + c * 64 + d
    IN Chr(w \div 65536)
         \o (IF n >= 3 THEN Chr((w \div 256) % 256) ELSE "")
         \o (IF n >= 4 THEN Chr(w % 256) ELSE "")

RECURSIVE B64DecodeGroups(_, _, _)
B64DecodeGroups(s, lo, hi) ==
    IF lo > hi THEN ""
    ELSE IF lo = hi THEN B64DecodeGroup(s, lo)
    ELSE LET mid == (lo + hi) \div 2
         IN B64DecodeGroups(s, lo, mid) \o B64DecodeGroups(s, mid + 1, hi)

base64url_decode(s) == B64DecodeGroups(s, 0, ((Len(s) + 3) \div 4) - 1)

\* a string base64url_decode accepts: alphabet only, no padding, no dangling sextet
IsBase64Url(s) ==
    /\ Len(s) > 0
    /\ Len(s) % 4 # 1
    /\ \A i \in 1..Len(s) : CharAt(s, i) \in DOMAIN B64Val


(***************************************************************************)
(* The signer called at line 29: jwt.encode(payload, key, algorithm).      *)
(* It works on a copy of the payload, turns datetime values of the exp,    *)
(* iat and nbf claims into whole epoch seconds, serialises header and      *)
(* claims as compact JSON and joins the three base64url segments.          *)
(***************************************************************************)
TimeClaims == {"exp", "iat", "nbf"}

\* variant: the timestamp is rounded to the nearest second instead of truncated
TimeClaimValueRounded(v) ==
    IF v.t = "dt"
    THEN PyInt(Timegm(v.v) + (IF 2 * v.v.microsecond >= UsecPerSecond THEN 1 ELSE 0))
    ELSE v

TimeClaimValue(v) == IF v.t = "dt" THEN PyInt(Timegm(v.v)) ELSE v

ConvertTimeClaims(p) ==
    [i \in 1..Len(p) |->
        IF p[i].k \in TimeClaims THEN Item(p[i].k, TimeClaimValue(p[i].v)) ELSE p[i]]

\* the JOSE header, serialised with sorted keys
JoseHeader(alg) == <<Item("alg", PyStr(alg)), Item("typ", PyStr("JWT"))>>

\* HMAC-SHA256 as the symbolic term of its arguments: a deterministic function
\* of key and message in which distinct arguments never collide
HmacSha256(key, msg) == "HMAC-SHA256(" \o key \o "," \o msg \o ")"

\* variant: only the header segment is signed
SigningInputHeaderOnly(header, claims) == header

\* the bytes that are signed: the first two segments joined by a dot
SigningInput(header, claims) == header \o "." \o claims

jwt_encode(p, key, alg) ==
    LET header == base64url_encode(JsonDumpsCompact(JoseHeader(alg)))
        claims == base64url_encode(JsonDumpsCompact(ConvertTimeClaims(p)))
        signature == base64url_encode(HmacSha256(key, SigningInput(header, claims)))
    IN header \o "." \o claims \o "." \o signature

\* variant: the time claims are converted in the caller's dict
PayloadConvertedInPlace(p) == ConvertTimeClaims(p)

\* the caller's dict once jwt.encode has returned: encode converts a copy
PayloadAfterEncode(p) == p

\* jwt.encode raises TypeError when a claim is not JSON serialisable
EncodeRaises(p) == ~JsonEncodable(ConvertTimeClaims(p))

Segments(tok) == Split(tok, ".")

\* jwt.get_unverified_header(tok)
DecodeHeader(tok) == JsonLoads(base64url_decode(Segments(tok)[1]))

\* jwt.decode(tok, options={"verify_signature": False})
DecodeClaims(tok) == JsonLoads(base64url_decode(Segments(tok)[2]))

(***************************************************************************)
(* The script.                                                             *)
(***************************************************************************)
VARIABLES
    clock,              \* the wall clock: [start, ticks]
    run,                \* which invocation of the script is in progress
    pc,                 \* the source line of the next statement
    JWT_SECRET, USER_ADDRESS, CHAIN_ID, UNIVERSAL_ADDRESS,
    now, payload, token,
    stdout,             \* what has been printed, one entry per print call
    exitCode,           \* Running until the process has terminated
    history             \* the runs that have terminated, oldest first

globals == <<JWT_SECRET, USER_ADDRESS, CHAIN_ID, UNIVERSAL_ADDRESS>>
vars == <<clock, run, pc, JWT_SECRET, USER_ADDRESS, CHAIN_ID, UNIVERSAL_ADDRESS,
          now, payload, token, stdout, exitCode, history>>

Running == -1
FirstLine == 8
EndOfFile == 51

\* the statement that follows the statement at line l
NextLine(l) == CASE l = 8 -> 11
                 [] l = 13 -> 16
                 [] l = 17 -> 29
                 [] l = 29 -> 31
                 [] OTHER -> l + 1

\* "template".format(arg) for a template with one {} field
Format(template, arg) ==
    LET i == Find(template, "{", 1)
    IN SubSeq(template, 1, i - 1) \o arg \o SubSeq(template, i + 2, Len(template))

\* variant: the two parts are swapped
UniversalAddressSwapped(chain, addr) == addr \o ":" \o Itoa(chain)

\* f"{a}:{b}" of line 13
UniversalAddressOf(chain, addr) == Itoa(chain) \o ":" \o addr

\* variant: the validity is given in minutes
ValidityInMinutes == [days |-> 0, seconds |-> 24 * 60, microseconds |-> 0]

\* timedelta(hours=24) of line 24
Validity == Timedelta(24)

\* variant: nbf is taken one second after iat
PayloadLiteralLateNbf(addr, universal, chain, t) ==
    << Item("user_address", PyStr(addr)),
       Item("universal_address", PyStr(universal)),
       Item("chain_id", PyInt(chain)),
       Item("iss", PyStr("zkpay-backend")),
       Item("sub", PyStr(addr)),
       Item("iat", PyDt(t)),
       Item("exp", PyDt(DateTimeAdd(t, Validity))),
       Item("nbf", PyDt(DateTimeAdd(t, [days |-> 0, seconds |-> 1, microseconds |-> 0]))) >>

\* the dict literal of lines 17-26
PayloadLiteral(addr, universal, chain, t) ==
    << Item("user_address", PyStr(addr)),
       Item("universal_address", PyStr(universal)),
       Item("chain_id", PyInt(chain)),
       Item("iss", PyStr("zkpay-backend")),
       Item("sub", PyStr(addr)),
       Item("iat", PyDt(t)),
       Item("exp", PyDt(DateTimeAdd(t, Validity))),
       Item("nbf", PyDt(t)) >>

Bar == Repeat("=", 60)

\* variant: json.dumps is called without default=str
ClaimsDumpWithoutDefault(p) == ~JsonEncodable(p)

\* json.dumps at line 39 raises when a value is not serialisable; with
\* default=str every value is
ClaimsDumpRaises(p) == FALSE

\* variant: the second shell line is formatted with a token signed anew
LineTextResigning(l) ==
    CASE l \in {31, 33, 41, 43} -> Bar
      [] l = 32 -> "JWT Token Generated for Testing"
      [] l = 35 -> "Token:"
      [] l = 36 -> token
      [] l = 38 -> "Claims:"
      [] l = 39 -> JsonDumpsIndent(payload)
      [] l = 42 -> "Usage:"
      [] l = 45 -> Format("export JWT_TOKEN='{}' && bash test-api.sh", token)
      [] l = 47 -> "Or:"
      [] l = 49 -> Format("JWT_TOKEN='{}' bash test-api.sh",
                          jwt_encode(PayloadLiteral(USER_ADDRESS, UNIVERSAL_ADDRESS, CHAIN_ID,
                                         UtcFromTimestamp(ClockSec(clock), ClockUsec(clock))),
                                     JWT_SECRET, "HS256"))
      [] OTHER -> ""

\* the argument of the print call at line l
LineText(l) ==
    CASE l \in {31, 33, 41, 43} -> Bar
      [] l = 32 -> "JWT Token Generated for Testing"
      [] l = 35 -> "Token:"
      [] l = 36 -> token
      [] l = 38 -> "Claims:"
      [] l = 39 -> JsonDumpsIndent(payload)
      [] l = 42 -> "Usage:"
      [] l = 45 -> Format("export JWT_TOKEN='{}' && bash test-api.sh", token)
      [] l = 47 -> "Or:"
      [] l = 49 -> Format("JWT_TOKEN='{}' bash test-api.sh", token)
      [] OTHER -> ""

PrintLines == 31..50

Init ==
    /\ clock \in {[start |-> Timegm(d), ticks |-> 0] : d \in StartTimes}
    /\ run = 1
    /\ pc = FirstLine
    /\ JWT_SECRET = ""
    /\ USER_ADDRESS = ""
    /\ CHAIN_ID = 0
    /\ UNIVERSAL_ADDRESS = ""
    /\ now = NoDateTime
    /\ payload = <<>>
    /\ token = ""
    /\ stdout = <<>>
    /\ exitCode = Running
    /\ history = <<>>

\* the environment: time passes
Tick ==
    /\ clock.ticks < MaxTick
    /\ clock' = [clock EXCEPT !.ticks = @ + 1]
    /\ UNCHANGED <<run, pc, JWT_SECRET, USER_ADDRESS, CHAIN_ID, UNIVERSAL_ADDRESS,
                   now, payload, token, stdout, exitCode, history>>

Step(l) == exitCode = Running /\ pc = l /\ pc' = NextLine(l)

\* lines 8-13: the module-level configuration
Configure ==
    /\ exitCode = Running /\ pc \in {8, 11, 12, 13}
    /\ pc' = NextLine(pc)
    /\ JWT_SECRET' = IF pc = 8 THEN "zkpay-jwt-secret-key-2025" ELSE JWT_SECRET
    /\ USER_ADDRESS' = IF pc = 11 THEN "0x742d35Cc6634C0532925a3b0F26750C66d78EB66"
                       ELSE USER_ADDRESS
    /\ CHAIN_ID' = IF pc = 12 THEN 714 ELSE CHAIN_ID
    /\ UNIVERSAL_ADDRESS' = IF pc = 13 THEN UniversalAddressOf(CHAIN_ID, USER_ADDRESS)
                            ELSE UNIVERSAL_ADDRESS
    /\ UNCHANGED <<clock, run, now, payload, token, stdout, exitCode, history>>

\* line 16: now = datetime.utcnow()
ReadClock ==
    /\ Step(16)
    /\ now' = UtcFromTimestamp(ClockSec(clock), ClockUsec(clock))
    /\ UNCHANGED <<clock, run, globals, payload, token, stdout, exitCode, history>>

\* lines 17-26
BuildPayload ==
    /\ Step(17)
    /\ payload' = PayloadLiteral(USER_ADDRESS, UNIVERSAL_ADDRESS, CHAIN_ID, now)
    /\ UNCHANGED <<clock, run, globals, now, token, stdout, exitCode, history>>

\* variant: the key is salted with the time of the run
SignWithPerRunKey ==
    /\ Step(29)
    /\ ~EncodeRaises(payload)
    /\ token' = jwt_encode(payload, JWT_SECRET \o DateTimeStr(now), "HS256")
    /\ payload' = PayloadAfterEncode(payload)
    /\ UNCHANGED <<clock, run, globals, now, stdout, exitCode, history>>

\* line 29, the signer returns
Sign ==
    /\ Step(29)
    /\ ~EncodeRaises(payload)
    /\ token' = jwt_encode(payload, JWT_SECRET, "HS256")
    /\ payload' = PayloadAfterEncode(payload)
    /\ UNCHANGED <<clock, run, globals, now, stdout, exitCode, history>>

\* line 29, the signer raises (the claims cannot be serialised, or the
\* cryptographic primitive is unavailable): the exception is not caught
SignRaises ==
    /\ exitCode = Running /\ pc = 29
    /\ exitCode' = 1
    /\ UNCHANGED <<clock, run, pc, globals, now, payload, token, stdout, history>>

\* lines 31-50, one print call; json.dumps at line 39 may raise, and the
\* exception is not caught
PrintLine ==
    /\ exitCode = Running /\ pc \in PrintLines
    /\ IF pc = 39 /\ ClaimsDumpRaises(payload)
       THEN exitCode' = 1 /\ UNCHANGED <<pc, stdout>>
       ELSE /\ stdout' = Append(stdout, LineText(pc))
            /\ pc' = NextLine(pc)
            /\ UNCHANGED exitCode
    /\ UNCHANGED <<clock, run, globals, now, payload, token, history>>

\* the end of the file is reached
Exit ==
    /\ exitCode = Running /\ pc = EndOfFile
    /\ exitCode' = 0
    /\ UNCHANGED <<clock, run, pc, globals, now, payload, token, stdout, history>>

\* the operator runs the script again: a fresh process
Rerun ==
    /\ exitCode # Running
    /\ run < MaxRuns
    /\ history' = Append(history, [token |-> token, payload |-> payload,
                                   exitCode |-> exitCode])
    /\ run' = run + 1
    /\ pc' = FirstLine
    /\ JWT_SECRET' = ""
    /\ USER_ADDRESS' = ""
    /\ CHAIN_ID' = 0
    /\ UNIVERSAL_ADDRESS' = ""
    /\ now' = NoDateTime
    /\ payload' = <<>>
    /\ token' = ""
    /\ stdout' = <<>>
    /\ exitCode' = Running
    /\ UNCHANGED clock

Next == Tick \/ Configure \/ ReadClock \/ BuildPayload \/ Sign \/ SignRaises
          \/ PrintLine \/ Exit \/ Rerun

Spec == Init /\ [][Next]_vars


(***************************************************************************)
(* Properties.  The produced token, payload and output of a run are those  *)
(* of the state in which the run has exited with code 0.                   *)
(***************************************************************************)
ClaimNames == {"user_address", "universal_address", "chain_id", "iss", "sub",
               "iat", "exp", "nbf"}

Built == payload # <<>>
Signed == token # ""
Produced == exitCode = 0

\* the claims carried by the token of the current run
Decoded == DecodeClaims(token)

ExactlyTheEightClaims(d) ==
    /\ Len(d) = Cardinality(ClaimNames)
    /\ {d[i].k : i \in 1..Len(d)} = ClaimNames

\* a decoded value denotes the same value as the one the script built; a
\* number of seconds denotes a datetime when it is that very instant
SameValue(dec, built) ==
    IF built.t = "dt"
    THEN dec.t = "int" /\ dec.v = Timegm(built.v) /\ built.v.microsecond = 0
    ELSE dec = built

\* a decoded value is the built one, a datetime being cut to whole seconds
SameValueToTheSecond(dec, built) ==
    IF built.t = "dt" THEN dec = PyInt(Timegm(built.v)) ELSE dec = built

\* C1 as stated: the token decodes into exactly the eight claims and every
\* decoded value, iat, exp and nbf included, equals the value of that field in
\* the payload the script built.
C1_DecodedEqualsBuilt ==
    Produced => LET d == Decoded
                IN /\ ExactlyTheEightClaims(d)
                   /\ \A k \in ClaimNames : SameValue(Get(d, k), Get(payload, k))

\* C1 amended: the token decodes into exactly the eight claims; the five
\* identity claims equal the built values, and iat, exp and nbf are the built
\* timestamps cut to whole epoch seconds, iat lying between the clock value of
\* the initial state and the current clock value.
C1_DecodedToTheSecond ==
    Produced => LET d == Decoded
                IN /\ ExactlyTheEightClaims(d)
                   /\ \A k \in ClaimNames :
                         SameValueToTheSecond(Get(d, k), Get(payload, k))
                   /\ Get(d, "iat").v >= clock.start
                   /\ Get(d, "iat").v <= ClockSec(clock)

C1_Witness == Produced /\ now.microsecond # 0 /\ Len(Decoded) = 8

\* C2: exp - iat is exactly 86400 seconds, in the payload the script built
\* (same microsecond, whole seconds one day apart) and in the claims of the
\* signed token.
C2_ExpiryIsOneDay ==
    /\ Built => /\ Timegm(Get(payload, "exp").v) - Timegm(Get(payload, "iat").v)
                     = 24 * 3600
                /\ Get(payload, "exp").v.microsecond = Get(payload, "iat").v.microsecond
    /\ Produced => LET d == Decoded
                   IN Get(d, "exp").v - Get(d, "iat").v = 24 * 3600

C2_Witness ==
    /\ Produced
    /\ Get(payload, "exp").v.month # Get(payload, "iat").v.month
    /\ Get(payload, "iat").v.microsecond # 0

\* C3: nbf equals iat, in the payload the script built and in the claims of
\* the signed token.
C3_NotBeforeIsIssuedAt ==
    /\ Built => Get(payload, "nbf") = Get(payload, "iat")
    /\ Produced => LET d == Decoded
                   IN Get(d, "nbf") = Get(d, "iat")

C3_Witness ==
    /\ Produced /\ ClockSec(clock) > Timegm(now)
    /\ Get(payload, "nbf") = PyDt(now)

\* the identity fields of a claim set are consistent: universal_address is
\* the decimal chain_id, a colon and user_address, and sub is user_address
IdentityConsistent(d) ==
    LET parts == Split(Get(d, "universal_address").v, ":")
    IN /\ Len(parts) = 2
       /\ Len(parts[1]) > 0
       /\ \A i \in 1..Len(parts[1]) : IsDigit(CharAt(parts[1], i))
       /\ PyInt(Atoi(parts[1])) = Get(d, "chain_id")
       /\ PyStr(parts[2]) = Get(d, "user_address")
       /\ Get(d, "sub") = Get(d, "user_address")

\* C4: in every payload the script builds, and in the claims of every token
\* it produces, universal_address is "{chain_id}:{user_address}" and sub is
\* user_address.
C4_IdentityFieldsConsistent ==
    /\ Built => IdentityConsistent(payload)
    /\ Produced => IdentityConsistent(Decoded)

C4_Witness == Built /\ ~Signed /\ pc = 29 /\ Get(payload, "chain_id") = PyInt(714)

\* the complete output of a successful run around token tok
IsFullOutput(out, tok) ==
    /\ Len(out) = 20
    /\ out[1] = Repeat("=", 60)
    /\ out[2] = "JWT Token Generated for Testing"
    /\ out[5] = "Token:"
    /\ out[6] = tok
    /\ out[8] = "Claims:"
    /\ ExactlyTheEightClaims(JsonLoads(out[9]))
    /\ out[12] = "Usage:"
    /\ out[15] = "export JWT_TOKEN='" \o tok \o "' && bash test-api.sh"
    /\ out[19] = "JWT_TOKEN='" \o tok \o "' bash test-api.sh"

\* C5: nothing is printed before the signer has returned; a run that has
\* terminated either failed to sign, printed nothing and exited nonzero, or
\* signed, printed the full output and exited with code 0.
C5_AllOrNothing ==
    /\ stdout # <<>> => Signed
    /\ exitCode \in {Running, 0, 1}
    /\ exitCode # Running /\ ~Signed => exitCode = 1 /\ stdout = <<>>
    /\ exitCode # Running /\ Signed => exitCode = 0 /\ IsFullOutput(stdout, token)

C5_Witness ==
    /\ exitCode = 1 /\ stdout = <<>>
    /\ Len(history) = 1 /\ history[1].exitCode = 0

SameSecond(a, b) == [a EXCEPT !.microsecond = 0] = [b EXCEPT !.microsecond = 0]

\* what C6 says of two runs: a's token and payload, b's token and payload
TwoRunsAgree(ta, pa, tb, pb) ==
    LET da == DecodeClaims(ta)
        db == DecodeClaims(tb)
        same == SameSecond(Get(pa, "iat").v, Get(pb, "iat").v)
    IN /\ \A k \in {"user_address", "chain_id", "universal_address", "iss", "sub"} :
             Get(da, k) = Get(db, k)
       /\ \A k \in {"iat", "exp", "nbf"} : (Get(da, k) = Get(db, k)) <=> same
       /\ (Segments(ta)[3] # Segments(tb)[3]) <=> (Get(da, "iat") # Get(db, "iat"))
       /\ same => ta = tb

\* C6: a run and any earlier run produce tokens with identical user_address,
\* chain_id, universal_address, iss and sub; their iat, exp and nbf are equal
\* exactly when both runs read the clock within the same second; their
\* signature segments differ exactly when their iat differ, and two runs
\* within the same second produce identical tokens.
C6_TwoRuns ==
    Produced =>
      \A i \in 1..Len(history) :
        history[i].exitCode = 0 =>
          TwoRunsAgree(history[i].token, history[i].payload, token, payload)

C6_Witness ==
    /\ Produced /\ Len(history) = 1
    /\ history[1].token = token
    /\ Get(history[1].payload, "iat") # Get(payload, "iat")

\* C7: signing the header and claims decoded from the token again, with the
\* same secret, yields the signature segment of the token.
C7_ResignReproduces ==
    Produced => LET again == jwt_encode(Decoded, JWT_SECRET,
                                        Get(DecodeHeader(token), "alg").v)
                IN Segments(again)[3] = Segments(token)[3]

C7_Witness == Produced /\ Len(Segments(token)[3]) > 0 /\ clock.ticks = MaxTick

\* C8: the token is three dot-separated base64url segments: the header
\* {alg: HS256, typ: JWT}, the claims, and the signature computed over the
\* first two segments joined by a dot.
C8_ThreeSegments ==
    Produced =>
      LET seg == Segments(token)
      IN /\ Len(seg) = 3
         /\ \A i \in 1..3 : IsBase64Url(seg[i])
         /\ LET h == JsonLoads(base64url_decode(seg[1]))
            IN /\ Len(h) = 2
               /\ Get(h, "alg") = PyStr("HS256")
               /\ Get(h, "typ") = PyStr("JWT")
         /\ ExactlyTheEightClaims(JsonLoads(base64url_decode(seg[2])))
         /\ base64url_decode(seg[3]) = HmacSha256(JWT_SECRET, seg[1] \o "." \o seg[2])

C8_Witness == Produced /\ stdout[6] = token /\ Len(Segments(token)) = 3

\* line i of the output is the i-th line of the fixed layout
LineInOrder(out, i) ==
    CASE i \in {1, 3, 11, 13} -> out[i] = Repeat("=", 60)
      [] i = 2 -> out[i] = "JWT Token Generated for Testing"
      [] i = 5 -> out[i] = "Token:"
      [] i = 6 -> Len(Segments(out[i])) = 3
      [] i = 8 -> out[i] = "Claims:"
      [] i = 9 -> ExactlyTheEightClaims(JsonLoads(out[i]))
      [] i = 12 -> out[i] = "Usage:"
      [] i = 15 -> Split(out[i], "'") = <<"export JWT_TOKEN=", out[6], " && bash test-api.sh">>
      [] i = 17 -> out[i] = "Or:"
      [] i = 19 -> Split(out[i], "'") = <<"JWT_TOKEN=", out[6], " bash test-api.sh">>
      [] OTHER -> out[i] = ""

OutputInOrder ==
    /\ Len(stdout) >= 6 => stdout[6] = token
    /\ Produced => Len(stdout) = 20 /\ \A i \in 1..20 : LineInOrder(stdout, i)

\* within a run the output only grows, one print at a time
AppendOnly ==
    \/ stdout' = stdout
    \/ Len(stdout') = Len(stdout) + 1 /\ SubSeq(stdout', 1, Len(stdout)) = stdout

\* C9: the output of a run is the banner, the token, the claims and the usage
\* section, printed in this order; the token inside both shell lines is the
\* token printed under "Token:", and the token of a run never changes once it
\* has been signed.
C9_OutputOrderSameToken ==
    /\ []OutputInOrder
    /\ [][run' = run => AppendOnly /\ (Signed => token' = token)]_vars

C9_Witness ==
    /\ Produced /\ Len(stdout) = 20
    /\ ClockSec(clock) # Timegm(now)
    /\ clock.ticks < MaxTick

\* the claims as json.dumps(indent=2, default=str) shows them
Rendered(p) ==
    [i \in 1..Len(p) |->
        Item(p[i].k, IF p[i].v.t = "dt" THEN PyStr(DateTimeStr(p[i].v.v)) ELSE p[i].v)]

ConstantsAsConfigured ==
    /\ pc > 8 => JWT_SECRET = "zkpay-jwt-secret-key-2025"
    /\ pc > 11 => USER_ADDRESS = "0x742d35Cc6634C0532925a3b0F26750C66d78EB66"
    /\ pc > 12 => CHAIN_ID = 714
    /\ pc > 13 => UNIVERSAL_ADDRESS = "714:0x742d35Cc6634C0532925a3b0F26750C66d78EB66"

PrintedClaimsArePayload ==
    /\ Built => /\ Get(payload, "iat") = PyDt(now)
                /\ Get(payload, "nbf") = PyDt(now)
                /\ Get(payload, "exp").v.microsecond = now.microsecond
    /\ Produced => JsonLoads(stdout[9]) = Rendered(payload)

\* C10: within a run the payload never changes after it has been built, the
\* claims printed under "Claims:" are that payload with its timestamps still
\* the datetimes read at the start, and the module-level constants keep the
\* configured values.
C10_PayloadNeverMutated ==
    /\ [](ConstantsAsConfigured /\ PrintedClaimsArePayload)
    /\ [][Built /\ run' = run => payload' = payload /\ now' = now]_vars

C10_Witness ==
    /\ Produced /\ now.microsecond # 0
    /\ Get(JsonLoads(stdout[9]), "iat") = PyStr(DateTimeStr(now))

====
